---- MODULE Spec2Model ----
(***************************************************************************)
(* generate-icons.py of offline_cinema: the icon pipeline as a state       *)
(* machine over the file system it reads and writes.                       *)
(*                                                                         *)
(* A path is the sequence of its components.  The file system is the set   *)
(* of directories that exist (dirs) and the function from the paths of     *)
(* the regular files that exist to their contents (files).  main() and     *)
(* generate_icns() advance one statement (or one loop iteration) per       *)
(* step.  Between two executions the environment may replace or remove     *)
(* the source image and create or remove the application bundle (Spec);    *)
(* SpecIcns has generate_icns called on its own, with bitmaps removed      *)
(* from its input directory between the calls; SpecCrop applies            *)
(* crop_to_square to every image of a range of sizes.                      *)
(*                                                                         *)
(* Environment assumptions: the file-system calls of main() outside        *)
(* generate_icns succeed unless the state of the file system makes them    *)
(* fail (copy2 of a file that does not exist); inside generate_icns, whose *)
(* try block handles them, a file-system call may also raise OSError, at   *)
(* most MaxFaults times in a behaviour.  The source file, when present,    *)
(* is a readable image.  iconutil writes the container exactly when it     *)
(* exits with 0.                                                           *)
(***************************************************************************)
EXTENDS Integers, Sequences, FiniteSets, TLC

VARIABLES
    dirs,        \* the directories that exist
    files,       \* path of a regular file -> its content
    pc,          \* position of main(); "idle": no process, "done": exited
    i,           \* main: index in ICON_SIZES of the loop of lines 163-165
    source_img,  \* main: the local source_img
    gpc,         \* position of generate_icns; "off": not active
    k,           \* generate_icns: index in icon_mapping of the loop of lines 71-75
    result,      \* generate_icns: the CompletedProcess of subprocess.run
    exc,         \* the exception raised last in this execution
    icns_ok,     \* what the last generate_icns call returned
    caller,      \* who called generate_icns: "main" or "direct"
    exitCode,    \* exit status of the process
    stdout,      \* what the execution printed, one tag per print
    toolCalls,   \* how often this execution started subprocess.run
    fs0,         \* the file system when this execution started
    faultsLeft   \* how many file-system calls the environment may still make fail

vars == <<dirs, files, pc, i, source_img, gpc, k, result, exc, icns_ok,
          caller, exitCode, stdout, toolCalls, fs0, faultsLeft>>

----------------------------------------------------------------------------
(* Bounds of the model *)

\* sides of the images the crop is checked on: 1..MaxSide
MaxSide == 12

\* how many catalog bitmaps the environment lets be missing from the output
\* directory at one time
MaxMissing == 1

\* how many file-system calls of generate_icns the environment makes fail
\* though the state of the file system allows them
MaxFaults == 1

----------------------------------------------------------------------------
(* Constants of the program *)

ICON_SIZES ==
    << <<16, 1, "icon_16x16.png">>,
       <<16, 2, "icon_16x16@2x.png">>,
       <<32, 1, "icon_32x32.png">>,
       <<32, 2, "icon_32x32@2x.png">>,
       <<128, 1, "icon_128x128.png">>,
       <<128, 2, "icon_128x128@2x.png">>,
       <<256, 1, "icon_256x256.png">>,
       <<256, 2, "icon_256x256@2x.png">>,
       <<512, 1, "icon_512x512.png">>,
       <<512, 2, "icon_512x512@2x.png">> >>

icon_mapping ==
    << <<"icon_16x16.png", "icon_16x16.png">>,
       <<"icon_16x16@2x.png", "icon_16x16@2x.png">>,
       <<"icon_32x32.png", "icon_32x32.png">>,
       <<"icon_32x32@2x.png", "icon_32x32@2x.png">>,
       <<"icon_128x128.png", "icon_128x128.png">>,
       <<"icon_128x128@2x.png", "icon_128x128@2x.png">>,
       <<"icon_256x256.png", "icon_256x256.png">>,
       <<"icon_256x256@2x.png", "icon_256x256@2x.png">>,
       <<"icon_512x512.png", "icon_512x512.png">>,
       <<"icon_512x512@2x.png", "icon_512x512@2x.png">> >>

\* contents with a slip in one literal: the 2x entry of size 16 labelled 32x32
contents_size_typo ==
    [images |->
       << [filename |-> "icon_16x16.png", idiom |-> "mac", scale |-> "1x", size |-> "16x16"],
          [filename |-> "icon_16x16@2x.png", idiom |-> "mac", scale |-> "2x", size |-> "32x32"],
          [filename |-> "icon_32x32.png", idiom |-> "mac", scale |-> "1x", size |-> "32x32"],
          [filename |-> "icon_32x32@2x.png", idiom |-> "mac", scale |-> "2x", size |-> "32x32"],
          [filename |-> "icon_128x128.png", idiom |-> "mac", scale |-> "1x", size |-> "128x128"],
          [filename |-> "icon_128x128@2x.png", idiom |-> "mac", scale |-> "2x", size |-> "128x128"],
          [filename |-> "icon_256x256.png", idiom |-> "mac", scale |-> "1x", size |-> "256x256"],
          [filename |-> "icon_256x256@2x.png", idiom |-> "mac", scale |-> "2x", size |-> "256x256"],
          [filename |-> "icon_512x512.png", idiom |-> "mac", scale |-> "1x", size |-> "512x512"],
          [filename |-> "icon_512x512@2x.png", idiom |-> "mac", scale |-> "2x", size |-> "512x512"] >>,
     info |-> [author |-> "xcode", version |-> 1]]

contents ==
    [images |->
       << [filename |-> "icon_16x16.png", idiom |-> "mac", scale |-> "1x", size |-> "16x16"],
          [filename |-> "icon_16x16@2x.png", idiom |-> "mac", scale |-> "2x", size |-> "16x16"],
          [filename |-> "icon_32x32.png", idiom |-> "mac", scale |-> "1x", size |-> "32x32"],
          [filename |-> "icon_32x32@2x.png", idiom |-> "mac", scale |-> "2x", size |-> "32x32"],
          [filename |-> "icon_128x128.png", idiom |-> "mac", scale |-> "1x", size |-> "128x128"],
          [filename |-> "icon_128x128@2x.png", idiom |-> "mac", scale |-> "2x", size |-> "128x128"],
          [filename |-> "icon_256x256.png", idiom |-> "mac", scale |-> "1x", size |-> "256x256"],
          [filename |-> "icon_256x256@2x.png", idiom |-> "mac", scale |-> "2x", size |-> "256x256"],
          [filename |-> "icon_512x512.png", idiom |-> "mac", scale |-> "1x", size |-> "512x512"],
          [filename |-> "icon_512x512@2x.png", idiom |-> "mac", scale |-> "2x", size |-> "512x512"] >>,
     info |-> [author |-> "xcode", version |-> 1]]

\* the paths main() builds, relative to script_dir
source_path == <<"offline_cinema.icon", "Assets", "output.png">>
output_dir == <<"OfflineCinema", "Assets.xcassets", "AppIcon.appiconset">>
icns_path == <<"OfflineCinema.app", "Contents", "Resources", "AppIcon.icns">>
branding_icns == <<"branding", "AppIcon.icns">>

----------------------------------------------------------------------------
(* os.path, os and shutil *)

join(dir, name) == Append(dir, name)

dirname(p) == SubSeq(p, 1, Len(p) - 1)

IsPrefix(d, p) == Len(d) <= Len(p) /\ SubSeq(p, 1, Len(d)) = d

exists(ds, fs, p) == p \in ds \/ p \in DOMAIN fs

\* os.makedirs(p, exist_ok=True): p and every missing ancestor
makedirs(ds, p) == ds \cup {SubSeq(p, 1, n) : n \in 1..Len(p)}

\* shutil.copy2(src, dst) with src an existing file
copy2(fs, src, dst) == (dst :> fs[src]) @@ fs

\* open(p, "w") ... write: the file holds what was written, whatever it held
write(fs, p, data) == (p :> data) @@ fs

\* shutil.rmtree(p): what is left of dirs and of files
rmtree_dirs(ds, p) == {d \in ds : ~IsPrefix(p, d)}

rmtree_files(fs, p) == [q \in {q \in DOMAIN fs : ~IsPrefix(p, q)} |-> fs[q]]

\* the regular files directly in directory d, by name
listdir(fs, d) ==
    [n \in {q[Len(q)] : q \in {q \in DOMAIN fs : dirname(q) = d}} |-> fs[join(d, n)]]

\* output_path.replace(".icns", ".iconset"), on the last component
iconset_of(output_path) ==
    [output_path EXCEPT ![Len(output_path)] =
        IF @ = "AppIcon.icns" THEN "AppIcon.iconset" ELSE @]

----------------------------------------------------------------------------
(* PIL images: size, mode, and where the pixels come from: the region box  *)
(* of the image origin, and the operations applied to it.                  *)

Image(w, h, mode) ==
    [size |-> <<w, h>>, mode |-> mode, origin |-> <<w, h, mode>>,
     box |-> <<0, 0, w, h>>, ops |-> <<>>]

NoImage == [size |-> <<0, 0>>, mode |-> "", origin |-> <<0, 0, "">>,
            box |-> <<0, 0, 0, 0>>, ops |-> <<>>]

\* Image.convert(mode)
convert(img, mode) ==
    IF img.mode = mode THEN img
    ELSE [img EXCEPT !.mode = mode, !.ops = Append(@, "convert " \o mode)]

\* Image.crop((left, top, right, bottom))
crop(img, left, top, right, bottom) ==
    [img EXCEPT !.size = <<right - left, bottom - top>>,
                !.box = <<img.box[1] + left, img.box[2] + top,
                          img.box[1] + right, img.box[2] + bottom>>,
                !.ops = Append(@, "crop")]

\* Image.resize((w, h), LANCZOS)
resize(img, w, h) ==
    [img EXCEPT !.size = <<w, h>>, !.ops = Append(@, "resize LANCZOS")]

\* Image.new("RGB", size, (0, 0, 0)).paste(img, (0, 0), img)
over_black(img) ==
    [img EXCEPT !.mode = "RGB", !.ops = Append(@, "paste over black")]

Min(a, b) == IF a <= b THEN a ELSE b

\* crop_to_square with a slip: the offsets are not halved
crop_to_square_not_halved(img) ==
    LET width == img.size[1]
        height == img.size[2]
        size == Min(width, height)
        left == width - size
        top == height - size
        right == left + size
        bottom == top + size
    IN  IF width = height THEN img
        ELSE crop(img, left, top, right, bottom)

crop_to_square(img) ==
    LET width == img.size[1]
        height == img.size[2]
        size == Min(width, height)
        left == (width - size) \div 2
        top == (height - size) \div 2
        right == left + size
        bottom == top + size
    IN  IF width = height THEN img
        ELSE crop(img, left, top, right, bottom)

\* create_icon with a slip: the scale is dropped
create_icon_without_scale(img, size, scale) ==
    LET actual_size == size
        resized == resize(img, actual_size, actual_size)
    IN  IF resized.mode = "RGBA" THEN over_black(resized)
        ELSE IF resized.mode # "RGB" THEN convert(resized, "RGB")
        ELSE resized

\* the image create_icon saves
create_icon(img, size, scale) ==
    LET actual_size == size * scale
        resized == resize(img, actual_size, actual_size)
    IN  IF resized.mode = "RGBA" THEN over_black(resized)
        ELSE IF resized.mode # "RGB" THEN convert(resized, "RGB")
        ELSE resized

\* update_contents_json with a slip: the file is opened "a", not "w"
update_contents_json_appending(fs, dir) ==
    LET contents_path == join(dir, "Contents.json")
    IN  IF contents_path \in DOMAIN fs
        THEN write(fs, contents_path, [before |-> fs[contents_path], then |-> contents])
        ELSE write(fs, contents_path, contents)

\* update_contents_json: output_dir/Contents.json is opened "w" and written
update_contents_json(fs, dir) == write(fs, join(dir, "Contents.json"), contents)

\* the container iconutil writes from the staging directory
iconutil(fs, iconset_path) == [icns |-> listdir(fs, iconset_path)]

\* the handler with a slip: except FileNotFoundError
Catches_missing_tool_only(type) == type \in {"FileNotFoundError"}

\* except Exception: the classes the handler of lines 91-93 catches
Catches(type) == type \in {"OSError", "FileNotFoundError"}

NoException == [type |-> "", at |-> ""]

NoResult == [returncode |-> -1]

----------------------------------------------------------------------------
(* The inputs *)

\* the source images of the pipeline runs
SourceImages == {Image(1000, 600, "RGB"), Image(800, 800, "RGBA")}

\* the source images the crop is checked on
CropImages == {Image(w, h, "L") : w \in 1..MaxSide, h \in 1..MaxSide}

bitmap_names == {ICON_SIZES[n][3] : n \in DOMAIN ICON_SIZES}

missing_bitmaps == {n \in bitmap_names : join(output_dir, n) \notin DOMAIN files}

----------------------------------------------------------------------------
(* The initial state: a checkout without the source image, nothing built *)

Init ==
    /\ dirs = {}
    /\ files = <<>>
    /\ pc = "idle"
    /\ i = 1
    /\ source_img = NoImage
    /\ gpc = "off"
    /\ k = 1
    /\ result = NoResult
    /\ exc = NoException
    /\ icns_ok = "none"
    /\ caller = "none"
    /\ exitCode = -1
    /\ stdout = <<>>
    /\ toolCalls = 0
    /\ fs0 = [dirs |-> {}, files |-> <<>>]
    /\ faultsLeft = MaxFaults

locals == <<i, source_img, gpc, k, result, exc, icns_ok, caller, exitCode,
            stdout, toolCalls>>

\* a fresh interpreter: no local is bound, nothing is printed
fresh(who) ==
    /\ i' = 1
    /\ source_img' = NoImage
    /\ k' = 1
    /\ result' = NoResult
    /\ exc' = NoException
    /\ icns_ok' = "none"
    /\ caller' = who
    /\ exitCode' = -1
    /\ stdout' = <<>>
    /\ toolCalls' = 0

printed(msg) == stdout' = Append(stdout, msg)

----------------------------------------------------------------------------
(* The environment, between two executions *)

EnvPutSource ==
    /\ pc = "idle"
    /\ \E img \in SourceImages :
         /\ ~(source_path \in DOMAIN files /\ files[source_path] = img)
         /\ dirs' = makedirs(dirs, dirname(source_path))
         /\ files' = write(files, source_path, img)
    /\ UNCHANGED <<pc, locals, fs0, faultsLeft>>

EnvRemoveSource ==
    /\ pc = "idle"
    /\ source_path \in DOMAIN files
    /\ files' = [q \in DOMAIN files \ {source_path} |-> files[q]]
    /\ UNCHANGED <<dirs, pc, locals, fs0, faultsLeft>>

EnvCreateBundle ==
    /\ pc = "idle"
    /\ dirname(icns_path) \notin dirs
    /\ dirs' = makedirs(dirs, dirname(icns_path))
    /\ UNCHANGED <<files, pc, locals, fs0, faultsLeft>>

EnvRemoveBundle ==
    /\ pc = "idle"
    /\ <<icns_path[1]>> \in dirs
    /\ dirs' = rmtree_dirs(dirs, <<icns_path[1]>>)
    /\ files' = rmtree_files(files, <<icns_path[1]>>)
    /\ UNCHANGED <<pc, locals, fs0, faultsLeft>>

EnvRemoveBitmap ==
    /\ pc = "idle"
    /\ Cardinality(missing_bitmaps) < MaxMissing
    /\ \E n \in bitmap_names \ missing_bitmaps :
         files' = [q \in DOMAIN files \ {join(output_dir, n)} |-> files[q]]
    /\ UNCHANGED <<dirs, pc, locals, fs0, faultsLeft>>

----------------------------------------------------------------------------
(* main(), lines 136-194 *)

\* main() with a slip: the output directory is made before the source is checked
main_steps_makedirs_first ==
    <<"makedirs_output", "check", "open", "crop", "create_icons",
      "update_contents", "makedirs_branding", "generate_icns", "copy_bundle",
      "return">>

\* main() with a slip: the container is packed before the manifest is written
main_steps_icns_before_contents ==
    <<"check", "makedirs_output", "open", "crop", "create_icons",
      "makedirs_branding", "generate_icns", "update_contents", "copy_bundle",
      "return">>

\* the statements of main() in the order of the source
main_steps ==
    <<"check", "makedirs_output", "open", "crop", "create_icons",
      "update_contents", "makedirs_branding", "generate_icns", "copy_bundle",
      "return">>

After(p) ==
    main_steps[(CHOOSE n \in DOMAIN main_steps : main_steps[n] = p) + 1]

\* python generate-icons.py
MainStart ==
    /\ pc = "idle"
    /\ pc' = main_steps[1]
    /\ gpc' = "off"
    /\ fresh("main")
    /\ fs0' = [dirs |-> dirs, files |-> files]
    /\ UNCHANGED <<dirs, files, faultsLeft>>

\* lines 142-144
MainCheck ==
    /\ pc = "check"
    /\ IF ~exists(dirs, files, source_path)
       THEN /\ printed("Error: Source icon not found")
            /\ exitCode' = 1
            /\ pc' = "done"
       ELSE /\ pc' = After("check")
            /\ UNCHANGED <<exitCode, stdout>>
    /\ UNCHANGED <<dirs, files, i, source_img, gpc, k, result, exc, icns_ok,
                   caller, toolCalls, fs0, faultsLeft>>

\* line 146
MainMakedirsOutput ==
    /\ pc = "makedirs_output"
    /\ dirs' = makedirs(dirs, output_dir)
    /\ pc' = After("makedirs_output")
    /\ UNCHANGED <<files, locals, fs0, faultsLeft>>

\* lines 156-157
MainOpen ==
    /\ pc = "open"
    /\ source_img' = convert(files[source_path], "RGBA")
    /\ printed("Original image size")
    /\ pc' = After("open")
    /\ UNCHANGED <<dirs, files, i, gpc, k, result, exc, icns_ok, caller,
                   exitCode, toolCalls, fs0, faultsLeft>>

\* lines 158-159
MainCrop ==
    /\ pc = "crop"
    /\ source_img' = crop_to_square(source_img)
    /\ printed("Cropped to square")
    /\ pc' = After("crop")
    /\ UNCHANGED <<dirs, files, i, gpc, k, result, exc, icns_ok, caller,
                   exitCode, toolCalls, fs0, faultsLeft>>

\* lines 163-165, one iteration; create_icon saves and prints (lines 48-49)
MainCreateIcon ==
    /\ pc = "create_icons"
    /\ LET size == ICON_SIZES[i][1]
           scale == ICON_SIZES[i][2]
           filename == ICON_SIZES[i][3]
           output_path == join(output_dir, filename)
       IN  /\ files' = write(files, output_path, create_icon(source_img, size, scale))
           /\ printed("Created: " \o filename)
    /\ IF i = Len(ICON_SIZES)
       THEN pc' = After("create_icons") /\ i' = i
       ELSE pc' = pc /\ i' = i + 1
    /\ UNCHANGED <<dirs, source_img, gpc, k, result, exc, icns_ok, caller,
                   exitCode, toolCalls, fs0, faultsLeft>>

\* line 168
MainUpdateContents ==
    /\ pc = "update_contents"
    /\ files' = update_contents_json(files, output_dir)
    /\ printed("Updated: Contents.json")
    /\ pc' = After("update_contents")
    /\ UNCHANGED <<dirs, i, source_img, gpc, k, result, exc, icns_ok, caller,
                   exitCode, toolCalls, fs0, faultsLeft>>

\* lines 171-172
MainMakedirsBranding ==
    /\ pc = "makedirs_branding"
    /\ dirs' = makedirs(dirs, dirname(branding_icns))
    /\ pc' = After("makedirs_branding")
    /\ UNCHANGED <<files, locals, fs0, faultsLeft>>

\* line 176: the call
MainGenerateIcns ==
    /\ pc = "generate_icns"
    /\ gpc = "off"
    /\ gpc' = "makedirs"
    /\ printed("Generating .icns file...")
    /\ UNCHANGED <<dirs, files, pc, i, source_img, k, result, exc, icns_ok,
                   caller, exitCode, toolCalls, fs0, faultsLeft>>

\* line 176: generate_icns returned, and main() drops what it returned
MainGenerateIcnsReturn ==
    /\ pc = "generate_icns"
    /\ gpc = "ret"
    /\ gpc' = "off"
    /\ pc' = After("generate_icns")
    /\ UNCHANGED <<dirs, files, i, source_img, k, result, exc, icns_ok,
                   caller, exitCode, stdout, toolCalls, fs0, faultsLeft>>

\* lines 179-182; copy2 of a missing file raises FileNotFoundError, which
\* nothing catches: the interpreter prints the traceback and exits with 1
MainCopyBundle ==
    /\ pc = "copy_bundle"
    /\ LET icns_dir == dirname(icns_path)
       IN  IF exists(dirs, files, icns_dir)
           THEN IF branding_icns \in DOMAIN files
                THEN /\ files' = copy2(files, branding_icns, icns_path)
                     /\ printed("Copied to: AppIcon.icns")
                     /\ pc' = After("copy_bundle")
                     /\ UNCHANGED <<exc, exitCode>>
                ELSE /\ exc' = [type |-> "FileNotFoundError", at |-> "main copy2"]
                     /\ printed("Traceback")
                     /\ exitCode' = 1
                     /\ pc' = "done"
                     /\ UNCHANGED files
           ELSE /\ pc' = After("copy_bundle")
                /\ UNCHANGED <<files, exc, exitCode, stdout>>
    /\ UNCHANGED <<dirs, i, source_img, gpc, k, result, icns_ok, caller,
                   toolCalls, fs0, faultsLeft>>

\* line 194, and exit(main()) of line 198
MainReturn ==
    /\ pc = "return"
    /\ exitCode' = 0
    /\ printed("App icons generated successfully!")
    /\ pc' = "done"
    /\ UNCHANGED <<dirs, files, i, source_img, gpc, k, result, exc, icns_ok,
                   caller, toolCalls, fs0, faultsLeft>>

\* the process is gone; what it left is the file system
Exit ==
    /\ pc = "done"
    /\ pc' = "idle"
    /\ gpc' = "off"
    /\ fresh("none")
    /\ fs0' = [dirs |-> {}, files |-> <<>>]
    /\ UNCHANGED <<dirs, files, faultsLeft>>

----------------------------------------------------------------------------
(* generate_icns(input_dir, output_path), lines 52-93 *)

raise(type, at) ==
    /\ exc' = [type |-> type, at |-> at]
    /\ gpc' = "except"

\* whether a file-system call the state allows succeeds: the environment
\* may make it fail while it has faultsLeft left
Outcomes == {TRUE} \cup {ok \in {FALSE} : faultsLeft > 0}

fault(ok) == faultsLeft' = (IF ok THEN faultsLeft ELSE faultsLeft - 1)

\* lines 55-56
GMakedirs(input_dir, output_path) ==
    /\ gpc = "makedirs"
    /\ LET iconset_path == iconset_of(output_path)
       IN  \E ok \in Outcomes :
             /\ fault(ok)
             /\ IF ok
                THEN /\ dirs' = makedirs(dirs, iconset_path)
                     /\ gpc' = "copy"
                     /\ UNCHANGED exc
                ELSE /\ raise("OSError", "makedirs")
                     /\ UNCHANGED dirs
    /\ k' = 1
    /\ UNCHANGED <<files, pc, i, source_img, result, icns_ok, caller, exitCode,
                   stdout, toolCalls, fs0>>

\* lines 71-75, one iteration
GCopy(input_dir, output_path) ==
    /\ gpc = "copy"
    /\ LET iconset_path == iconset_of(output_path)
           src == join(input_dir, icon_mapping[k][1])
           dst == join(iconset_path, icon_mapping[k][2])
           next == /\ gpc' = (IF k = Len(icon_mapping) THEN "run" ELSE "copy")
                   /\ k' = (IF k = Len(icon_mapping) THEN k ELSE k + 1)
                   /\ UNCHANGED exc
       IN  IF exists(dirs, files, src)
           THEN \E ok \in Outcomes :
                  /\ fault(ok)
                  /\ IF ok
                     THEN files' = copy2(files, src, dst) /\ next
                     ELSE raise("OSError", "copy2") /\ UNCHANGED <<files, k>>
           ELSE UNCHANGED <<files, faultsLeft>> /\ next
    /\ UNCHANGED <<dirs, pc, i, source_img, result, icns_ok, caller, exitCode,
                   stdout, toolCalls, fs0>>

\* lines 77-81: iconutil is not installed, or runs and exits with a status;
\* it writes the container when it exits with 0
GRun(input_dir, output_path) ==
    /\ gpc = "run"
    /\ toolCalls' = toolCalls + 1
    /\ \E outcome \in {"not installed", "nonzero", "zero"} :
         IF outcome = "not installed"
         THEN /\ raise("FileNotFoundError", "subprocess.run")
              /\ UNCHANGED <<files, result>>
         ELSE IF outcome = "nonzero"
         THEN /\ result' = [returncode |-> 1]
              /\ gpc' = "returncode"
              /\ UNCHANGED <<files, exc>>
         ELSE /\ result' = [returncode |-> 0]
              /\ files' = write(files, output_path,
                                iconutil(files, iconset_of(output_path)))
              /\ gpc' = "returncode"
              /\ UNCHANGED exc
    /\ UNCHANGED <<dirs, pc, i, source_img, k, icns_ok, caller, exitCode,
                   stdout, fs0, faultsLeft>>

\* lines 83-89; rmtree removes the tree, or raises with the directory still
\* there, its files untouched (keep) or already deleted
GReturncode(input_dir, output_path) ==
    /\ gpc = "returncode"
    /\ LET iconset_path == iconset_of(output_path)
       IN  IF result.returncode = 0
           THEN /\ printed("Created: AppIcon.icns")
                /\ \E ok \in Outcomes, keep \in BOOLEAN :
                     /\ fault(ok)
                     /\ IF ok
                        THEN /\ keep
                             /\ dirs' = rmtree_dirs(dirs, iconset_path)
                             /\ files' = rmtree_files(files, iconset_path)
                             /\ icns_ok' = "True"
                             /\ gpc' = "ret"
                             /\ UNCHANGED exc
                        ELSE /\ dirs' = dirs
                             /\ files' = IF keep THEN files
                                         ELSE rmtree_files(files, iconset_path)
                             /\ raise("OSError", "rmtree")
                             /\ UNCHANGED icns_ok
           ELSE /\ printed("Error creating .icns")
                /\ icns_ok' = "False"
                /\ gpc' = "ret"
                /\ UNCHANGED <<dirs, files, exc, faultsLeft>>
    /\ UNCHANGED <<pc, i, source_img, k, result, caller, exitCode, toolCalls,
                   fs0>>

\* lines 91-93; an exception the handler does not catch leaves the function
GExcept ==
    /\ gpc = "except"
    /\ IF Catches(exc.type)
       THEN /\ printed("Error generating .icns")
            /\ icns_ok' = "False"
            /\ gpc' = "ret"
            /\ UNCHANGED <<pc, exitCode>>
       ELSE /\ printed("Traceback")
            /\ exitCode' = 1
            /\ pc' = "done"
            /\ gpc' = "off"
            /\ UNCHANGED icns_ok
    /\ UNCHANGED <<dirs, files, i, source_img, k, result, exc, caller,
                   toolCalls, fs0, faultsLeft>>

\* another caller of the module: generate_icns(output_dir, branding_icns)
DirectCall ==
    /\ pc = "idle"
    /\ pc' = "direct"
    /\ gpc' = "makedirs"
    /\ fresh("direct")
    /\ fs0' = [dirs |-> dirs, files |-> files]
    /\ UNCHANGED <<dirs, files, faultsLeft>>

DirectReturn ==
    /\ pc = "direct"
    /\ gpc = "ret"
    /\ pc' = "idle"
    /\ gpc' = "off"
    /\ fresh("none")
    /\ fs0' = [dirs |-> {}, files |-> <<>>]
    /\ UNCHANGED <<dirs, files, faultsLeft>>

----------------------------------------------------------------------------
(* The executions of the script and the calls of generate_icns *)

Next ==
    \/ EnvPutSource
    \/ EnvRemoveSource
    \/ EnvCreateBundle
    \/ EnvRemoveBundle
    \/ MainStart
    \/ MainCheck
    \/ MainMakedirsOutput
    \/ MainOpen
    \/ MainCrop
    \/ MainCreateIcon
    \/ MainUpdateContents
    \/ MainMakedirsBranding
    \/ MainGenerateIcns
    \/ MainGenerateIcnsReturn
    \/ MainCopyBundle
    \/ MainReturn
    \/ Exit
    \/ GMakedirs(output_dir, branding_icns)
    \/ GCopy(output_dir, branding_icns)
    \/ GRun(output_dir, branding_icns)
    \/ GReturncode(output_dir, branding_icns)
    \/ GExcept

Spec == Init /\ [][Next]_vars

\* the same on a file system none of whose calls fails while the state of
\* the file system allows it
InitReliable ==
    /\ dirs = {}
    /\ files = <<>>
    /\ pc = "idle"
    /\ i = 1
    /\ source_img = NoImage
    /\ gpc = "off"
    /\ k = 1
    /\ result = NoResult
    /\ exc = NoException
    /\ icns_ok = "none"
    /\ caller = "none"
    /\ exitCode = -1
    /\ stdout = <<>>
    /\ toolCalls = 0
    /\ fs0 = [dirs |-> {}, files |-> <<>>]
    /\ faultsLeft = 0

SpecReliable == InitReliable /\ [][Next]_vars

(* generate_icns called on its own, on the output directory a pipeline run *)
(* has filled, with bitmaps removed from it between the calls, on a file   *)
(* system none of whose calls fails while its state allows it              *)

\* the output directory after lines 146-168 on the source image img
rendered(img) ==
    LET square == crop_to_square(convert(img, "RGBA"))
        bitmaps == [p \in {join(output_dir, n) : n \in bitmap_names} |->
                      LET e == CHOOSE e \in DOMAIN ICON_SIZES :
                                   ICON_SIZES[e][3] = p[Len(p)]
                      IN  create_icon(square, ICON_SIZES[e][1], ICON_SIZES[e][2])]
    IN  update_contents_json(bitmaps, output_dir)

InitIcns ==
    /\ \E img \in SourceImages :
         files = write(rendered(img), source_path, img)
    /\ dirs = makedirs(makedirs({}, dirname(source_path)), output_dir)
    /\ pc = "idle"
    /\ i = 1
    /\ source_img = NoImage
    /\ gpc = "off"
    /\ k = 1
    /\ result = NoResult
    /\ exc = NoException
    /\ icns_ok = "none"
    /\ caller = "none"
    /\ exitCode = -1
    /\ stdout = <<>>
    /\ toolCalls = 0
    /\ fs0 = [dirs |-> {}, files |-> <<>>]
    /\ faultsLeft = 0

NextIcns ==
    \/ EnvRemoveBitmap
    \/ DirectCall
    \/ DirectReturn
    \/ GMakedirs(output_dir, branding_icns)
    \/ GCopy(output_dir, branding_icns)
    \/ GRun(output_dir, branding_icns)
    \/ GReturncode(output_dir, branding_icns)
    \/ GExcept

SpecIcns == InitIcns /\ [][NextIcns]_vars

----------------------------------------------------------------------------
(* crop_to_square on every image of CropImages: main() at line 158 *)

InitCrop ==
    /\ \E img \in CropImages :
         /\ files = write(<<>>, source_path, img)
         /\ source_img = convert(img, "RGBA")
         /\ fs0 = [dirs |-> makedirs({}, dirname(source_path)),
                   files |-> write(<<>>, source_path, img)]
    /\ dirs = makedirs(makedirs({}, dirname(source_path)), output_dir)
    /\ pc = "crop"
    /\ i = 1
    /\ gpc = "off"
    /\ k = 1
    /\ result = NoResult
    /\ exc = NoException
    /\ icns_ok = "none"
    /\ caller = "main"
    /\ exitCode = -1
    /\ stdout = <<"Original image size">>
    /\ toolCalls = 0
    /\ faultsLeft = 0

SpecCrop == InitCrop /\ [][MainCrop]_vars

----------------------------------------------------------------------------
(* What the claims speak of *)

Range(seq) == {seq[n] : n \in DOMAIN seq}

SourcePresent == source_path \in DOMAIN files

iconset == iconset_of(branding_icns)

contents_path == join(output_dir, "Contents.json")

bitmap_path(e) == join(output_dir, ICON_SIZES[e][3])

\* this execution of main() has written catalog entry e / the manifest
Created(e) == caller = "main" /\ ("Created: " \o ICON_SIZES[e][3]) \in Range(stdout)

Updated == caller = "main" /\ "Updated: Contents.json" \in Range(stdout)

\* the tool was started and did not exit with 0, or could not be started
ToolFailed == toolCalls > 0 /\ (result.returncode = 1 \/ exc.at = "subprocess.run")

\* an exception was raised in the try block of generate_icns
RaisedInGenerateIcns == exc.at \in {"makedirs", "copy2", "subprocess.run", "rmtree"}

\* whether the file at path p is in fs what it is in gs
SameFile(fs, gs, p) ==
    /\ (p \in DOMAIN fs) = (p \in DOMAIN gs)
    /\ p \in DOMAIN fs => fs[p] = gs[p]

----------------------------------------------------------------------------
\* C1: whenever the source image exists, main() ends with exit code 0,
\* whatever the packager and the copy to the bundle do; exit code 1 occurs
\* only when the source image is absent.
C1_ExitZeroWheneverSourceExists ==
    (pc = "done" /\ caller = "main") =>
        /\ SourcePresent => exitCode = 0
        /\ exitCode = 1 => ~SourcePresent

\* C2: the container is copied into the bundle only in an execution whose
\* generate_icns call returned True.
C2_CopyOnlyAfterSuccess ==
    (caller = "main" /\ "Copied to: AppIcon.icns" \in Range(stdout)) =>
        icns_ok = "True"

\* C3: without the source image main() exits with 1, creates and modifies
\* nothing in the file system and does not start the tool.
C3_MissingSourceNoEffect ==
    (caller = "main" /\ ~SourcePresent) =>
        /\ dirs = fs0.dirs
        /\ files = fs0.files
        /\ toolCalls = 0
        /\ gpc = "off"
        /\ pc = "done" => exitCode = 1

\* an execution that found no source image, in a tree earlier executions
\* have filled
C3_Witness ==
    /\ pc = "done"
    /\ caller = "main"
    /\ ~SourcePresent
    /\ exitCode = 1
    /\ contents_path \in DOMAIN files
    /\ iconset \in dirs

\* C4, as stated: generate_icns returns True exactly when the tool exited
\* with 0, then the staging directory is gone; otherwise it returns False
\* and the staging directory, if created, is still there; an exception
\* raised in it does not leave it: the call returns False.
C4_TrueExactlyWhenToolExitsZero ==
    /\ gpc = "ret" =>
         /\ icns_ok \in {"True", "False"}
         /\ icns_ok = "True" <=> result.returncode = 0
         /\ icns_ok = "True" => ~exists(dirs, files, iconset)
         /\ (icns_ok = "False" /\ exc.at # "makedirs") => iconset \in dirs
    /\ (gpc = "off" /\ RaisedInGenerateIcns) => icns_ok = "False"

\* C4, amended: generate_icns returns True exactly when the tool exited with
\* 0 and removing the staging directory raised no error, then the staging
\* directory is gone; otherwise it returns False and the staging directory,
\* if created, is still there; an exception raised in it does not leave it:
\* the call returns False.
C4_TrueExactlyWhenToolExitsZeroAndRemoved ==
    /\ gpc = "ret" =>
         /\ icns_ok \in {"True", "False"}
         /\ icns_ok = "True" <=> (result.returncode = 0 /\ exc.at # "rmtree")
         /\ icns_ok = "True" => ~exists(dirs, files, iconset)
         /\ (icns_ok = "False" /\ exc.at # "makedirs") => iconset \in dirs
    /\ (gpc = "off" /\ RaisedInGenerateIcns) => icns_ok = "False"

\* the tool exited with 0, rmtree raised, and generate_icns returned False
C4_Witness ==
    /\ gpc = "ret"
    /\ icns_ok = "False"
    /\ result.returncode = 0
    /\ exc.at = "rmtree"
    /\ iconset \in dirs
    /\ branding_icns \in DOMAIN files

\* C5: once the source check has passed, the 10 bitmaps and the manifest are
\* written by this execution before the tool is started; the tool is started
\* at most once and main() goes on only when generate_icns is over; when the
\* tool fails or is missing the bitmaps and the manifest are there at the
\* end and the execution has produced no container.
C5_OutputsBeforeTool ==
    /\ (caller = "main" /\ (gpc = "run" \/ toolCalls > 0)) =>
         /\ Updated
         /\ files[contents_path] = contents
         /\ \A e \in DOMAIN ICON_SIZES :
              /\ Created(e)
              /\ files[bitmap_path(e)] =
                   create_icon(source_img, ICON_SIZES[e][1], ICON_SIZES[e][2])
    /\ toolCalls <= 1
    /\ (caller = "main" /\ gpc # "off") => pc = "generate_icns"
    /\ (caller = "main" /\ pc = "done" /\ ToolFailed) =>
         /\ contents_path \in DOMAIN files
         /\ \A e \in DOMAIN ICON_SIZES : bitmap_path(e) \in DOMAIN files
         /\ SameFile(files, fs0.files, branding_icns)

\* an execution that ended with exit code 0 though iconutil is not installed
C5_Witness ==
    /\ pc = "done"
    /\ caller = "main"
    /\ exitCode = 0
    /\ exc.at = "subprocess.run"
    /\ toolCalls = 1
    /\ branding_icns \notin DOMAIN files
    /\ \A e \in DOMAIN ICON_SIZES : Created(e)

\* C6: the manifest update_contents_json writes has exactly 10 entries, in
\* the order of ICON_SIZES and with its filenames, which are the bitmaps in
\* the output directory; entry e has size "<n>x<n>" and scale "<s>x" for the
\* nominal size n and the scale s of catalog entry e, idiom "mac", and the
\* info is {author: "xcode", version: 1}.
C6_ManifestMatchesCatalog ==
    Updated =>
        LET m == files[contents_path]
        IN  /\ DOMAIN m = {"images", "info"}
            /\ m.info = [author |-> "xcode", version |-> 1]
            /\ Len(m.images) = 10
            /\ Len(m.images) = Len(ICON_SIZES)
            /\ \A e \in DOMAIN ICON_SIZES :
                 LET n == ICON_SIZES[e][1]
                     sc == ICON_SIZES[e][2]
                 IN  /\ DOMAIN m.images[e] = {"filename", "idiom", "scale", "size"}
                     /\ m.images[e].filename = ICON_SIZES[e][3]
                     /\ m.images[e].idiom = "mac"
                     /\ m.images[e].size = ToString(n) \o "x" \o ToString(n)
                     /\ m.images[e].scale = ToString(sc) \o "x"
                     /\ m.images[e].scale \in {"1x", "2x"}
            /\ {m.images[e].filename : e \in DOMAIN m.images}
                 = DOMAIN listdir(files, output_dir) \ {"Contents.json"}
            /\ Cardinality({m.images[e].filename : e \in DOMAIN m.images}) = 10

\* the manifest written, beside the 10 bitmaps of this execution
C6_Witness ==
    /\ Updated
    /\ pc = "done"
    /\ exitCode = 0
    /\ files[contents_path].images[6].filename = "icon_128x128@2x.png"
    /\ \A e \in DOMAIN ICON_SIZES : Created(e)

\* C7: on an image of width w >= 1 and height h >= 1 crop_to_square returns
\* the region of side min(w, h) whose left is floor((w - min) / 2) and whose
\* top is floor((h - min) / 2): inside the input, centred up to one pixel;
\* a square input is returned unchanged.
C7_CentredSquare ==
    pc # "crop" =>
        LET in == convert(files[source_path], "RGBA")
            w == in.size[1]
            h == in.size[2]
            m == IF w <= h THEN w ELSE h
            left == source_img.box[1]
            top == source_img.box[2]
            right == source_img.box[3]
            bottom == source_img.box[4]
        IN  /\ w >= 1 /\ h >= 1
            /\ source_img.size = <<m, m>>
            /\ right - left = m /\ bottom - top = m
            /\ 2 * left <= w - m /\ w - m <= 2 * left + 1
            /\ 2 * top <= h - m /\ h - m <= 2 * top + 1
            /\ 0 <= left /\ right <= w
            /\ 0 <= top /\ bottom <= h
            /\ (w - right) - left \in {0, 1}
            /\ (h - bottom) - top \in {0, 1}
            /\ w = h => source_img = in
            /\ source_img.origin = in.origin

\* a 5x2 image cropped to columns 1..2, one pixel off the centre
C7_Witness ==
    /\ pc # "crop"
    /\ files[source_path].size = <<5, 2>>
    /\ source_img.size = <<2, 2>>
    /\ source_img.box = <<1, 0, 3, 2>>

\* C8: the bitmap main() writes for a catalog entry (nominal size, scale,
\* filename) is nominal size * scale wide and high, whatever the size of the
\* source; the 1000x600 source is cropped to 600x600 and gives a 128x128
\* icon_128x128.png.
C8_BitmapSize ==
    /\ \A e \in DOMAIN ICON_SIZES :
         Created(e) =>
            files[bitmap_path(e)].size =
                <<ICON_SIZES[e][1] * ICON_SIZES[e][2], ICON_SIZES[e][1] * ICON_SIZES[e][2]>>
    /\ (caller = "main" /\ SourcePresent /\ files[source_path].size = <<1000, 600>>) =>
         /\ Created(5) =>
              /\ source_img.size = <<600, 600>>
              /\ files[join(output_dir, "icon_128x128.png")].size = <<128, 128>>
         /\ Created(10) =>
              files[join(output_dir, "icon_512x512@2x.png")].size = <<1024, 1024>>

\* the 1000x600 source rendered to the end
C8_Witness ==
    /\ pc = "done"
    /\ caller = "main"
    /\ exitCode = 0
    /\ files[source_path].size = <<1000, 600>>
    /\ \A e \in DOMAIN ICON_SIZES : Created(e)
    /\ files[join(output_dir, "icon_128x128.png")].size = <<128, 128>>

\* the output directory held, when this execution started, the manifest and
\* the 10 bitmaps an earlier execution rendered from the source image that
\* is there now
RenderedBefore ==
    /\ SourcePresent
    /\ contents_path \in DOMAIN fs0.files
    /\ \A e \in DOMAIN ICON_SIZES :
         /\ bitmap_path(e) \in DOMAIN fs0.files
         /\ fs0.files[bitmap_path(e)].origin = files[source_path].origin

\* C9: an execution on the source image the previous one rendered leaves the
\* 10 bitmaps and the manifest as that one left them, whatever the packager
\* did in either.
C9_SecondRunSameOutputs ==
    (pc = "done" /\ caller = "main" /\ RenderedBefore) =>
        listdir(files, output_dir) = listdir(fs0.files, output_dir)

\* a second execution on the same source, to its end, all files rewritten
C9_Witness ==
    /\ pc = "done"
    /\ caller = "main"
    /\ RenderedBefore
    /\ Updated
    /\ \A e \in DOMAIN ICON_SIZES : Created(e)
    /\ ToolFailed

\* C10: when generate_icns starts the tool, the staging directory holds
\* exactly the catalog bitmaps the input directory holds, with their
\* content there, and nothing of an earlier call.
C10_StagingMirrorsInput ==
    gpc = "run" =>
        listdir(files, iconset) =
            [n \in bitmap_names \ missing_bitmaps |-> files[join(output_dir, n)]]

====
